---- MODULE Spec2Model ----
(***************************************************************************)
(* quickslurm: one Slurm instance and one API call (sbatch, submit_inline, *)
(* srun or scancel) driven through Slurm._run, the completion poller       *)
(* _slurm_wait and the result assembly _parse_result (Spec, SpecWait); the *)
(* option encoder and the argument vectors (SpecFlags); _parse_job_id on   *)
(* its own (SpecParse); threads calling one instance (SpecConc) and        *)
(* threads constructing instances (SpecLog).                               *)
(*                                                                         *)
(* Text is a sequence of tokens: a word, " ", "\n", "|", a digit, or the   *)
(* marker "Submitted batch job".  A Python str is such a sequence, the     *)
(* empty str is << >>.  An environment is a function from a set of keys    *)
(* to values.  Each action is the code that runs between two blocking      *)
(* calls (subprocess.run, sacct, sleep).                                   *)
(***************************************************************************)
EXTENDS Integers, Sequences, FiniteSets, TLC

VARIABLES
    pc,            \* position of the call: new, idle, running, polling,
                   \* sleeping, assembling, returned, raised; with threads,
                   \* the position of each thread
    environ,       \* os.environ
    base_override, \* the base_env argument given to Slurm(...)
    base_env,      \* self.base_env
    call,          \* the arguments of the API call in progress
    merged_env,    \* the env= handed to subprocess.run by _run
    cp,            \* the CompletedProcess of the submission command
    job_id,        \* the job id _run extracted
    res,           \* how the last _sacct_cmd ended: its output or its timeout
    answers,       \* job_state of each polling query that returned, in order
    hist,          \* the blocking steps of the call, in order
    result,        \* what the call returned or raised
    exc,           \* the exception subprocess.run raised in _run, if any
    inline,        \* submit_inline: its stage, its temporary script, the files
    logger         \* the loggers of the process: the handlers of "quickslurm" and
                   \* its configured mark, the handlers of "quickslurm.null"

vars == <<pc, environ, base_override, base_env, call, merged_env, cp, job_id,
          res, answers, hist, result, exc, inline, logger>>

(* The longest polling loop explored: slurm_wait_sleep stops after it. *)
MaxPolls == 3

(* The longest text given to _parse_job_id on its own. *)
MaxText == 6

(* The largest option map given to _build_flag_kv. *)
MaxOpts == 3

(* The number of threads that call one Slurm instance at the same time. *)
NumThreads == 2

----------------------------------------------------------------------------
(* Python values *)

EmptyStr == << >>
Str(w) == <<w>>
IntVal(n) == [type |-> "int", v |-> n]
StrVal(s) == [type |-> "str", v |-> s]

IsSpace(t) == t \in {" ", "\n"}
IsDigit(t) == t \in {"0", "1", "2", "3", "4", "5", "6", "7", "8", "9"}
DigitVal(t) ==
    CASE t = "0" -> 0 [] t = "1" -> 1 [] t = "2" -> 2 [] t = "3" -> 3
      [] t = "4" -> 4 [] t = "5" -> 5 [] t = "6" -> 6 [] t = "7" -> 7
      [] t = "8" -> 8 [] t = "9" -> 9

RECURSIVE lstrip(_)
lstrip(s) == IF s # << >> /\ IsSpace(Head(s)) THEN lstrip(Tail(s)) ELSE s

RECURSIVE rstrip(_)
rstrip(s) ==
    IF s # << >> /\ IsSpace(s[Len(s)]) THEN rstrip(SubSeq(s, 1, Len(s) - 1)) ELSE s

(* str.strip() *)
strip(s) == rstrip(lstrip(s))

(* str.split(sep): one piece more than there are separators *)
RECURSIVE split(_, _)
split(s, sep) ==
    IF \E i \in 1..Len(s) : s[i] = sep
    THEN LET i == CHOOSE k \in 1..Len(s) :
                      s[k] = sep /\ \A j \in 1..(k - 1) : s[j] # sep
         IN  <<SubSeq(s, 1, i - 1)>> \o split(SubSeq(s, i + 1, Len(s)), sep)
    ELSE <<s>>

(* str.replace(a, b) for single characters *)
replace(s, a, b) == [i \in 1..Len(s) |-> IF s[i] = a THEN b ELSE s[i]]

BoolVal(b) == [type |-> "bool", v |-> b]

DigitTok(d) ==
    CASE d = 0 -> "0" [] d = 1 -> "1" [] d = 2 -> "2" [] d = 3 -> "3" [] d = 4 -> "4"
      [] d = 5 -> "5" [] d = 6 -> "6" [] d = 7 -> "7" [] d = 8 -> "8" [] d = 9 -> "9"

(* the decimal digits of a natural number *)
RECURSIVE NatText(_)
NatText(n) == IF n < 10 THEN <<DigitTok(n)>> ELSE Append(NatText(n \div 10), DigitTok(n % 10))

(* f"{v}" of a str or an int *)
format(v) ==
    IF v.type = "str" THEN v.v
    ELSE IF v.v < 0 THEN <<"-">> \o NatText(0 - v.v) ELSE NatText(v.v)

(* list[:n] *)
Take(l, n) == SubSeq(l, 1, IF Len(l) < n THEN Len(l) ELSE n)

----------------------------------------------------------------------------
(* utils.py helpers *)

Marker == "Submitted batch job"

(* dict.update *)
EnvUpdate(a, b) ==
    [k \in (DOMAIN a) \cup (DOMAIN b) |-> IF k \in DOMAIN b THEN b[k] ELSE a[k]]

env_with(overrides) ==
    IF DOMAIN overrides # {} THEN EnvUpdate(environ, overrides) ELSE environ

(* a bug: \d in place of \d+, only the first digit is taken *)
DigitRun_first(s, i) == IF i <= Len(s) /\ IsDigit(s[i]) THEN <<s[i]>> ELSE << >>

(* a bug: the underscores of the key are kept *)
flag_key_raw(k) == strip(k)

(* _build_flag_kv, line 47: the key of the flag *)
flag_key(k) == replace(strip(k), "_", "-")

(* a bug: a true flag is written with its value *)
flag_kv_true_valued(e) ==
    IF e[2].type = "bool"
    THEN IF e[2].v THEN <<(<<"-", "-">> \o flag_key(e[1]) \o <<"=", "True">>)>> ELSE << >>
    ELSE <<(<<"-", "-">> \o flag_key(e[1]) \o <<"=">> \o format(e[2]))>>

(* _build_flag_kv, lines 48-52: the tokens of one entry <<k, v>> *)
flag_kv(e) ==
    IF e[2].type = "bool"
    THEN IF e[2].v THEN <<(<<"-", "-">> \o flag_key(e[1]))>> ELSE << >>
    ELSE <<(<<"-", "-">> \o flag_key(e[1]) \o <<"=">> \o format(e[2]))>>

(* _build_flag_kv: options is the mapping as the sequence of its entries *)
RECURSIVE build_flag_kv(_)
build_flag_kv(options) ==
    IF options = << >> THEN << >>
    ELSE flag_kv(Head(options)) \o build_flag_kv(Tail(options))

(* the digits matched by (\d+) from position i on *)
RECURSIVE DigitRun(_, _)
DigitRun(s, i) ==
    IF i <= Len(s) /\ IsDigit(s[i]) THEN <<s[i]>> \o DigitRun(s, i + 1) ELSE << >>

(* the first position after the \s+ that starts at i, or 0 when \s+ fails *)
RECURSIVE SkipSpace(_, _)
SkipSpace(s, i) ==
    IF i <= Len(s) /\ IsSpace(s[i])
    THEN IF i + 1 <= Len(s) /\ IsSpace(s[i + 1]) THEN SkipSpace(s, i + 1) ELSE i + 1
    ELSE 0

(* _JOB_ID_RE matches with the marker at position i *)
MatchAt(s, i) ==
    /\ s[i] = Marker
    /\ SkipSpace(s, i + 1) # 0
    /\ DigitRun(s, SkipSpace(s, i + 1)) # << >>

RECURSIVE int(_)
int(ds) == IF ds = << >> THEN 0 ELSE 10 * int(SubSeq(ds, 1, Len(ds) - 1)) + DigitVal(ds[Len(ds)])

(* _JOB_ID_RE.search: the leftmost match *)
HasJobId(s) == \E i \in 1..Len(s) : MatchAt(s, i)

parse_job_id(s) ==
    LET i == CHOOSE k \in 1..Len(s) : MatchAt(s, k) /\ \A j \in 1..(k - 1) : ~MatchAt(s, j)
    IN  int(DigitRun(s, SkipSpace(s, i + 1)))

(* a bug: the last line of the output is read instead of the first *)
sacct_format_last_line(x) ==
    LET lines == split(strip(x), "\n")
    IN  split(strip(lines[Len(lines)]), "|")

sacct_format(x) == split(strip(split(strip(x), "\n")[1]), "|")

TerminalStates ==
    {Str("COMPLETED"), Str("FAILED"), Str("CANCELLED"), Str("TIMEOUT"),
     Str("NODE_FAIL"), Str("OUT_OF_MEMORY")}

----------------------------------------------------------------------------
(* The outside world: what the external commands can answer *)

EnvKeys == {"VAR"}

(* os.environ of the process *)
Environs == {<<>>, [k \in EnvKeys |-> "inherited"]}
(* base_env given to the constructor *)
BaseOverrides == {<<>>, [k \in EnvKeys |-> "base"]}
(* extra_env given to a call *)
ExtraEnvs == {<<>>, [k \in EnvKeys |-> "call"]}

(* how the submission command can end (subprocess.run returning) *)
Completions ==
    { [returncode |-> 0, stdout |-> <<Marker, " ", "4", "2", "\n">>, stderr |-> EmptyStr],
      [returncode |-> 0, stdout |-> <<"warn", "\n", Marker, " ", "7", "\n">>,
                         stderr |-> Str("warn")],
      [returncode |-> 0, stdout |-> <<Marker, " ", "0", "\n">>, stderr |-> EmptyStr],
      [returncode |-> 0, stdout |-> <<"weird", " ", "output">>, stderr |-> EmptyStr],
      [returncode |-> 0, stdout |-> EmptyStr, stderr |-> EmptyStr],
      [returncode |-> 2, stdout |-> EmptyStr, stderr |-> Str("boom")],
      [returncode |-> 5, stdout |-> <<"stdout", " ", "text">>, stderr |-> <<"E:", " ", "nope">>],
      [returncode |-> 1, stdout |-> <<Marker, " ", "4", "2", "\n">>, stderr |-> Str("boom")],
      \* killed by signal 1: subprocess reports the return code -1
      [returncode |-> -1, stdout |-> EmptyStr, stderr |-> EmptyStr] }

(* what subprocess.TimeoutExpired carries: the output captured so far *)
Timeouts ==
    { [stdout |-> EmptyStr, stderr |-> EmptyStr],
      [stdout |-> Str("out"), stderr |-> Str("err")] }

Reply(to, rc, out) == [timeout |-> to, returncode |-> rc, stdout |-> out]

(* sacct --format=State: answers of the polling query *)
PollReplies ==
    { Reply(FALSE, 0, <<"PENDING", "\n">>),
      Reply(FALSE, 0, <<"RUNNING", "\n">>),
      Reply(FALSE, 0, EmptyStr),
      Reply(FALSE, 1, EmptyStr),
      Reply(FALSE, 0, <<"CANCELLED", " ", "by", " ", "1", "\n">>),
      Reply(FALSE, 0, <<"COMPLETED", "\n">>),
      Reply(FALSE, 0, <<"FAILED", "\n", "RUNNING", "\n">>),
      Reply(FALSE, 0, <<"CANCELLED", "\n">>),
      Reply(FALSE, 0, <<"TIMEOUT", "\n">>),
      Reply(FALSE, 0, <<"NODE_FAIL", "\n">>),
      Reply(FALSE, 0, <<"OUT_OF_MEMORY", "\n">>),
      Reply(FALSE, 0, <<"COMPLETED", "|", "0:0", "\n">>),
      Reply(TRUE, 0, EmptyStr) }

(* sacct --format=State,ExitCode,StdOut,StdErr: answers of the final query *)
FinalReplies ==
    { Reply(FALSE, 0, <<"COMPLETED", "|", "0:0", "|", "out", "|", "err", "\n">>),
      Reply(FALSE, 0, <<"FAILED", "|", "1:0", "|", "out", "|", "err", "\n",
                        "FAILED", "|", "1:0", "|", "|", "\n">>),
      Reply(FALSE, 0, <<"PENDING", "|", "0:0", "|", "out", "|", "err", "\n">>),
      Reply(FALSE, 0, <<"COMPLETED", "|", "0:0", "\n">>),
      Reply(FALSE, 0, EmptyStr),
      Reply(FALSE, 1, EmptyStr),
      Reply(TRUE, 0, EmptyStr) }

(* the options of the calls of Spec: {"job_name": "x", "exclusive": True} *)
SomeOptions ==
    << <<(<<"j", "_", "n">>), StrVal(Str("x"))>>, <<(<<"e">>), BoolVal(TRUE)>> >>

(* option names and values given to _build_flag_kv on its own *)
OptionKeys == {<<"a">>, <<" ", "a", "_", "b", " ">>, <<"a", "-", "b">>, <<"_", "e">>}
OptionValues == {BoolVal(TRUE), BoolVal(FALSE), IntVal(42), StrVal(<<"4", "2">>)}

(* the mappings of at most n entries, keys distinct, in insertion order *)
RECURSIVE MapsUpTo(_)
MapsUpTo(n) ==
    IF n = 0 THEN {<< >>}
    ELSE LET shorter == MapsUpTo(n - 1)
         IN  shorter \cup
             UNION {{Append(o, <<k, v>>) :
                         k \in OptionKeys \ {o[i][1] : i \in 1..Len(o)},
                         v \in OptionValues} : o \in shorter}

OptionMaps == MapsUpTo(MaxOpts)

ScriptArgs == {<< >>, <<Str("arg")>>}

(* the names tempfile.NamedTemporaryFile may give the script *)
TempNames == {Str("tmp1.sh"), Str("tmp2.sh")}

NoCall == [op |-> "none"]
NoCp == [returncode |-> 0, stdout |-> EmptyStr, stderr |-> EmptyStr]
NoRes == Reply(FALSE, 0, EmptyStr)
NoResult == [kind |-> "none"]
NoExc == [kind |-> "none"]
NoLogger == [handlers |-> << >>, configured |-> FALSE, null_handlers |-> << >>]
NoInline ==
    [stage |-> "none", tf_path |-> EmptyStr, files |-> {Str("keep.sh")}, unlinked |-> << >>]

CommandResult(rc, out, err, args) ==
    [returncode |-> rc, stdout |-> out, stderr |-> err, args |-> args]

SubmitResult(id, state, rc, out, err, args) ==
    [kind |-> "SubmitResult", job_id |-> id, state |-> state, returncode |-> rc,
     stdout |-> out, stderr |-> err, args |-> args]

Count(h, e) == Cardinality({i \in 1..Len(h) : h[i] = e})

----------------------------------------------------------------------------
Init ==
    /\ pc = "new"
    /\ environ \in Environs
    /\ base_override = <<>>
    /\ base_env = <<>>
    /\ call = NoCall
    /\ merged_env = <<>>
    /\ cp = NoCp
    /\ job_id = 0
    /\ res = NoRes
    /\ answers = << >>
    /\ hist = << >>
    /\ result = NoResult
    /\ exc = NoExc
    /\ inline = NoInline
    /\ logger = NoLogger

(* Slurm.__init__ *)
Slurm_init(base) ==
    /\ pc = "new"
    /\ base_override' = base
    /\ base_env' = env_with(base)
    /\ pc' = "idle"
    /\ UNCHANGED <<environ, call, merged_env, cp, job_id, res, answers, hist, result,
                   exc, inline, logger>>

(* _run up to subprocess.run: the merged environment of the command *)
run_env(env) == IF DOMAIN env # {} THEN EnvUpdate(base_env, env) ELSE base_env

run_start(op, args, options, tail, extra, check, wait, batch) ==
    /\ call' = [op |-> op, args |-> args, options |-> options, tail |-> tail,
                extra_env |-> extra, check |-> check, wait |-> wait, batch |-> batch]
    /\ merged_env' = run_env(env_with(extra))
    /\ hist' = Append(hist, "run")
    /\ pc' = "running"
    /\ UNCHANGED <<environ, base_override, base_env, cp, job_id, res, answers, result,
                   exc, logger>>

(* a bug: the flags are appended after the script and its arguments *)
cmd_line_flags_last(tool, options, tail) ==
    <<tool>> \o tail \o (IF options # << >> THEN build_flag_kv(options) ELSE << >>)

(* sbatch, lines 172-176, and srun, lines 318-321: the argument vector *)
cmd_line(tool, options, tail) ==
    <<tool>> \o (IF options # << >> THEN build_flag_kv(options) ELSE << >>) \o tail

(* Slurm.sbatch, from its entry to the start of the command *)
Slurm_sbatch(script_path, script_args, options, extra, check, wait) ==
    run_start("sbatch", cmd_line(Str("sbatch"), options, <<script_path>> \o script_args),
              options, <<script_path>> \o script_args, extra, check, wait, TRUE)

(* a call of Slurm.sbatch by the client *)
sbatch(script_path, script_args, options, extra, check, wait) ==
    /\ pc = "idle"
    /\ Slurm_sbatch(script_path, script_args, options, extra, check, wait)
    /\ UNCHANGED inline

(* Slurm.srun *)
srun(command, options, extra, check, wait) ==
    /\ pc = "idle"
    /\ run_start("srun", cmd_line(Str("srun"), options, command),
                 options, command, extra, check, wait, FALSE)
    /\ UNCHANGED inline

(* Slurm.scancel *)
scancel(id, extra, check) ==
    /\ pc = "idle"
    /\ run_start("scancel", <<Str("scancel"), format(IntVal(id))>>,
                 << >>, <<format(IntVal(id))>>, extra, check, FALSE, FALSE)
    /\ UNCHANGED inline

(* Slurm.submit_inline up to the start of the command: the temporary script *)
(* tf is created and kept (delete=False), then passed to sbatch inside try  *)
submit_inline(tf, options, extra, check, wait) ==
    /\ pc = "idle"
    /\ tf \notin inline.files
    /\ inline' = [stage |-> "try", tf_path |-> tf, files |-> inline.files \cup {tf},
                  unlinked |-> << >>]
    /\ Slurm_sbatch(tf, << >>, options, extra, check, wait)

(* a bug: the script is removed only when sbatch returned *)
finally_unlink_on_return(outcome, in) ==
    IF outcome = "returned"
    THEN [in EXCEPT !.stage = "done", !.files = @ \ {in.tf_path},
                    !.unlinked = Append(@, in.tf_path)]
    ELSE [in EXCEPT !.stage = "done"]

(* submit_inline, lines 263-267: os.unlink(tf_path), whether sbatch returned *)
(* or raised                                                                *)
finally_unlink(outcome, in) ==
    [in EXCEPT !.stage = "done", !.files = @ \ {in.tf_path},
               !.unlinked = Append(@, in.tf_path)]

(* the finally clause of submit_inline, entered when sbatch is left *)
submit_inline_finally ==
    /\ pc \in {"returned", "raised"}
    /\ inline.stage = "try"
    /\ inline' = finally_unlink(pc, inline)
    /\ UNCHANGED <<pc, environ, base_override, base_env, call, merged_env, cp, job_id,
                   res, answers, hist, result, exc, logger>>


(* a bug: the batch test of line 409 inverted *)
raises_on_failure_inverted(check, batch) == check /\ ~batch

(* _run, lines 408-409: a non-zero exit is escalated to SlurmCommandError *)
raises_on_failure(check, batch) == check /\ batch

(* a bug: the job id is parsed from the output of the failed submission *)
failed_result_parsed(c, args) ==
    SubmitResult(IF HasJobId(c.stdout) THEN parse_job_id(c.stdout) ELSE 0, Str("UNKNOWN"),
                 IntVal(c.returncode), c.stdout, c.stderr, args)

(* _run, line 415: the result returned for a non-zero exit that is not escalated *)
failed_result(c, args) ==
    SubmitResult(0, Str("UNKNOWN"), IntVal(c.returncode), c.stdout, c.stderr, args)

(* a bug: a job that was just submitted is reported as PENDING *)
nowait_result_pending(id, c, args) ==
    SubmitResult(id, Str("PENDING"), IntVal(c.returncode), c.stdout, c.stderr, args)

(* _run, line 429: the result of sbatch without waiting *)
nowait_result(id, c, args) ==
    SubmitResult(id, Str("UNKNOWN"), IntVal(c.returncode), c.stdout, c.stderr, args)

(* a bug: srun and scancel read a job id from what the command printed *)
direct_result_parsed(c, args) ==
    SubmitResult(IF HasJobId(c.stdout) THEN parse_job_id(c.stdout) ELSE 0,
                 IF c.returncode = 0 THEN Str("COMPLETE") ELSE Str("FAILED"),
                 IntVal(c.returncode), c.stdout, c.stderr, args)

(* _run, line 434: the result of srun and scancel *)
direct_result(c, args) ==
    SubmitResult(0, IF c.returncode = 0 THEN Str("COMPLETE") ELSE Str("FAILED"),
                 IntVal(c.returncode), c.stdout, c.stderr, args)

(* a bug: the result is assembled without calling _slurm_wait *)
after_extract_nowait(wait, id) == IF ~wait THEN "returned" ELSE "assembling"

(* a bug: _slurm_wait without the test for the sentinel job id 0 *)
after_extract_nosentinel(wait, id) == IF ~wait THEN "returned" ELSE "polling"

(* _run, lines 421-422 with _slurm_wait, lines 118-119: where a submitted *)
(* sbatch call goes once its job id is known                              *)
after_extract(wait, id) ==
    IF ~wait THEN "returned" ELSE IF id = 0 THEN "assembling" ELSE "polling"

(* a bug: the output captured before the timeout is dropped *)
timeout_error_without_output(e, args) ==
    [kind |-> "SlurmCommandError",
     result |-> CommandResult(-1, EmptyStr, Str("TimeoutExpired"), args)]

(* _run, lines 395-398: the error raised for a timeout; `e.stdout or ""` and *)
(* `e.stderr or f"TimeoutExpired: {e}"`                                      *)
timeout_error(e, args) ==
    [kind |-> "SlurmCommandError",
     result |-> CommandResult(-1, e.stdout,
                              IF e.stderr # EmptyStr THEN e.stderr ELSE Str("TimeoutExpired"),
                              args)]

(* _run, lines 393-398: subprocess.run raised TimeoutExpired *)
run_TimeoutExpired(e) ==
    /\ pc = "running"
    /\ exc' = [kind |-> "TimeoutExpired", stdout |-> e.stdout, stderr |-> e.stderr]
    /\ result' = timeout_error(e, call.args)
    /\ pc' = "raised"
    /\ UNCHANGED <<environ, base_override, base_env, call, merged_env, cp, job_id,
                   res, answers, hist, inline, logger>>

(* a bug: a missing executable reported like a failed command *)
tool_not_found_as_failure(args) ==
    [kind |-> "SlurmCommandError",
     result |-> CommandResult(127, EmptyStr, EmptyStr, args)]

(* _run, line 402: the error raised when the executable is not found *)
tool_not_found(args) == [kind |-> "SlurmError", command |-> args[1]]

(* _run, lines 400-402: subprocess.run raised FileNotFoundError *)
run_FileNotFoundError ==
    /\ pc = "running"
    /\ exc' = [kind |-> "FileNotFoundError"]
    /\ result' = tool_not_found(call.args)
    /\ pc' = "raised"
    /\ UNCHANGED <<environ, base_override, base_env, call, merged_env, cp, job_id,
                   res, answers, hist, inline, logger>>

(* _run, lines 410-413: the error raised for a non-zero exit *)
command_failed(c, args) ==
    [kind |-> "SlurmCommandError",
     result |-> CommandResult(c.returncode, c.stdout, c.stderr, args)]

(* a bug: a text without job id gives the job id 0 instead of an error *)
extract_default(text) ==
    [raised |-> FALSE, id |-> IF HasJobId(text) THEN parse_job_id(text) ELSE 0,
     error |-> NoResult]

(* _parse_job_id as _run calls it (line 419): the job id, or SlurmParseError *)
(* with the text                                                            *)
extract(text) ==
    IF HasJobId(text)
    THEN [raised |-> FALSE, id |-> parse_job_id(text), error |-> NoResult]
    ELSE [raised |-> TRUE, id |-> 0, error |-> [kind |-> "SlurmParseError", text |-> text]]

(* _run, lines 408-434: subprocess.run returned the CompletedProcess c *)
run_completed(c) ==
    /\ pc = "running"
    /\ cp' = c
    /\ IF c.returncode # 0
       THEN /\ IF raises_on_failure(call.check, call.batch)
               THEN /\ pc' = "raised"
                    /\ result' = command_failed(c, call.args)
               ELSE /\ pc' = "returned"
                    /\ result' = failed_result(c, call.args)
            /\ hist' = Append(hist, "exit")
            /\ UNCHANGED job_id
       ELSE IF call.batch
       THEN IF extract(c.stdout).raised
            THEN /\ pc' = "raised"
                 /\ result' = extract(c.stdout).error
                 /\ hist' = hist \o <<"exit", "parse_job_id">>
                 /\ UNCHANGED job_id
            ELSE LET id == extract(c.stdout).id IN
                 /\ job_id' = id
                 /\ pc' = after_extract(call.wait, id)
                 /\ hist' = hist \o <<"exit", "parse_job_id">>
                               \o (IF call.wait /\ id = 0 THEN <<"waited">> ELSE << >>)
                 /\ result' = IF pc' = "returned"
                              THEN nowait_result(id, c, call.args)
                              ELSE result
       ELSE /\ pc' = "returned"
            /\ result' = direct_result(c, call.args)
            /\ hist' = Append(hist, "exit")
            /\ UNCHANGED job_id
    /\ UNCHANGED <<environ, base_override, base_env, call, merged_env, res, answers,
                   exc, inline, logger>>

(* a bug: every state but PENDING ends the wait *)
is_terminal_not_pending(job_state) == job_state # Str("PENDING")

(* _slurm_wait, line 132: the state that ends the wait *)
is_terminal(job_state) == job_state \in TerminalStates

(* _slurm_wait, lines 121-147: one turn of the loop, _sacct_cmd answering r. *)
(* subprocess.run is called without check=True, so a non-zero exit raises   *)
(* nothing; TimeoutExpired is not among the exceptions the loop catches.    *)
slurm_wait_query(r) ==
    /\ pc = "polling"
    /\ IF r.timeout
       THEN /\ pc' = "raised"
            /\ result' = [kind |-> "TimeoutExpired"]
            /\ hist' = Append(hist, "poll")
            /\ res' = r
            /\ UNCHANGED answers
       ELSE LET state == sacct_format(r.stdout)
                job_state == state[1]
            IN  /\ res' = r
                /\ answers' = Append(answers, job_state)
                /\ IF is_terminal(job_state)
                   THEN /\ pc' = "assembling"
                        /\ hist' = hist \o <<"poll", "waited">>
                   ELSE /\ pc' = "sleeping"
                        /\ hist' = Append(hist, "poll")
                /\ UNCHANGED result
    /\ UNCHANGED <<environ, base_override, base_env, call, merged_env, cp, job_id,
                   exc, inline, logger>>

(* _slurm_wait, line 136: sleep(10), then the next turn of the loop *)
slurm_wait_sleep ==
    /\ pc = "sleeping"
    /\ Count(hist, "poll") < MaxPolls
    /\ hist' = Append(hist, "sleep")
    /\ pc' = "polling"
    /\ UNCHANGED <<environ, base_override, base_env, call, merged_env, cp, job_id,
                   res, answers, result, exc, inline, logger>>

(* _parse_result, lines 150-156: the four values handed back to _run *)
parse_result(r) ==
    IF r.timeout
    THEN <<StrVal(Str("UNKNOWN")), IntVal(0), StrVal(Str("UNKNOWN")), StrVal(Str("UNKNOWN"))>>
    ELSE LET f == Take(sacct_format(r.stdout), 4)
         IN  [i \in 1..Len(f) |-> StrVal(f[i])]

(* _parse_result applied to each answer of the final query *)
final_values == [r \in FinalReplies |-> parse_result(r)]

(* _run, lines 423-425: the final query, the unpacking of its four values *)
(* (ValueError when there are not four) and the result                    *)
run_assemble(r) ==
    /\ pc = "assembling"
    /\ res' = r
    /\ hist' = Append(hist, "final")
    /\ LET t == final_values[r] IN
       IF Len(t) # 4
       THEN /\ pc' = "raised"
            /\ result' = [kind |-> "ValueError"]
       ELSE /\ pc' = "returned"
            /\ result' = SubmitResult(job_id, t[1].v, t[2], t[3].v, t[4].v, call.args)
    /\ UNCHANGED <<environ, base_override, base_env, call, merged_env, cp, job_id, answers,
                   exc, inline, logger>>

Next ==
    \/ \E base \in BaseOverrides : Slurm_init(base)
    \/ \E extra \in ExtraEnvs, check \in BOOLEAN, wait \in BOOLEAN :
          sbatch(Str("script.sh"), << >>, SomeOptions, extra, check, wait)
    \/ \E extra \in ExtraEnvs, check \in BOOLEAN, wait \in BOOLEAN :
          srun(<<Str("hostname")>>, SomeOptions, extra, check, wait)
    \/ \E extra \in ExtraEnvs, check \in BOOLEAN : scancel(123, extra, check)
    \/ \E tf \in TempNames, extra \in ExtraEnvs, check \in BOOLEAN, wait \in BOOLEAN :
          submit_inline(tf, SomeOptions, extra, check, wait)
    \/ submit_inline_finally
    \/ \E e \in Timeouts : run_TimeoutExpired(e)
    \/ run_FileNotFoundError
    \/ \E c \in Completions : run_completed(c)
    \/ \E r \in PollReplies : slurm_wait_query(r)
    \/ slurm_wait_sleep
    \/ \E r \in FinalReplies : run_assemble(r)

Spec == Init /\ [][Next]_vars

----------------------------------------------------------------------------
(* Threads calling one Slurm instance at the same time, each step one       *)
(* statement of sbatch and _run up to the start of the command.  Here pc,   *)
(* call and merged_env hold one value per thread; merged_env[t] is the      *)
(* local variable of _run: the dict it refers to (its own copy, or the      *)
(* dict of self.base_env), the contents of its own dict, and the            *)
(* environment handed to subprocess.run.                                    *)

Threads == 1..NumThreads

NoEnv == [ref |-> "none", own |-> <<>>, passed |-> <<>>]

InitConc ==
    /\ environ \in Environs
    /\ base_override \in BaseOverrides
    /\ base_env = env_with(base_override)
    /\ pc = [t \in Threads |-> "idle"]
    /\ call = [t \in Threads |-> NoCall]
    /\ merged_env = [t \in Threads |-> NoEnv]
    /\ cp = NoCp
    /\ job_id = 0
    /\ res = NoRes
    /\ answers = << >>
    /\ hist = << >>
    /\ result = NoResult
    /\ exc = NoExc
    /\ inline = NoInline
    /\ logger = NoLogger

(* sbatch, line 178: env=_env_with(extra_env), then _run is entered *)
conc_call(t, extra) ==
    /\ pc[t] = "idle"
    /\ call' = [call EXCEPT ![t] = [op |-> "sbatch", extra_env |-> extra,
                                     env |-> env_with(extra)]]
    /\ pc' = [pc EXCEPT ![t] = "copy"]
    /\ UNCHANGED <<environ, base_override, base_env, merged_env, cp, job_id, res, answers,
                   hist, result, exc, inline, logger>>

(* a bug: merged_env = self.base_env, the dict itself and not a copy *)
base_env_alias(t) == "base"

(* _run, line 377: self.base_env.copy() is a dict of the call's own *)
base_env_copy(t) == "own"

(* _run, line 377: merged_env = self.base_env.copy() *)
conc_copy(t) ==
    /\ pc[t] = "copy"
    /\ merged_env' = [merged_env EXCEPT
                         ![t] = [ref |-> base_env_copy(t), own |-> base_env, passed |-> <<>>]]
    /\ pc' = [pc EXCEPT ![t] = "update"]
    /\ UNCHANGED <<environ, base_override, base_env, call, cp, job_id, res, answers,
                   hist, result, exc, inline, logger>>

(* _run, lines 378-379: if env: merged_env.update(env) *)
conc_update(t) ==
    /\ pc[t] = "update"
    /\ IF DOMAIN call[t].env = {}
       THEN UNCHANGED <<merged_env, base_env>>
       ELSE IF merged_env[t].ref = "own"
       THEN /\ merged_env' = [merged_env EXCEPT
                                 ![t].own = EnvUpdate(merged_env[t].own, call[t].env)]
            /\ UNCHANGED base_env
       ELSE /\ base_env' = EnvUpdate(base_env, call[t].env)
            /\ UNCHANGED merged_env
    /\ pc' = [pc EXCEPT ![t] = "run"]
    /\ UNCHANGED <<environ, base_override, call, cp, job_id, res, answers,
                   hist, result, exc, inline, logger>>

(* _run, lines 384-392: subprocess.run(..., env=merged_env) starts the command *)
conc_run(t) ==
    /\ pc[t] = "run"
    /\ merged_env' = [merged_env EXCEPT
                         ![t].passed = IF merged_env[t].ref = "own"
                                       THEN merged_env[t].own ELSE base_env]
    /\ pc' = [pc EXCEPT ![t] = "ran"]
    /\ UNCHANGED <<environ, base_override, base_env, call, cp, job_id, res, answers,
                   hist, result, exc, inline, logger>>

(* the call is over: its local variables are gone *)
conc_return(t) ==
    /\ pc[t] = "ran"
    /\ call' = [call EXCEPT ![t] = NoCall]
    /\ merged_env' = [merged_env EXCEPT ![t] = NoEnv]
    /\ pc' = [pc EXCEPT ![t] = "idle"]
    /\ UNCHANGED <<environ, base_override, base_env, cp, job_id, res, answers,
                   hist, result, exc, inline, logger>>

NextConc ==
    \/ \E t \in Threads, extra \in ExtraEnvs : conc_call(t, extra)
    \/ \E t \in Threads : conc_copy(t)
    \/ \E t \in Threads : conc_update(t)
    \/ \E t \in Threads : conc_run(t)
    \/ \E t \in Threads : conc_return(t)

SpecConc == InitConc /\ [][NextConc]_vars

----------------------------------------------------------------------------
(* Threads constructing Slurm objects at the same time, with the built-in   *)
(* logger (enable_logging=True) or without (False), each step one group of  *)
(* statements of __init__ and _get_or_create_default_logger that ends in a  *)
(* call.  Here pc holds the position of each thread.                        *)

InitLog ==
    /\ environ \in Environs
    /\ pc = [t \in Threads |-> "idle"]
    /\ base_override = <<>>
    /\ base_env = <<>>
    /\ call = NoCall
    /\ merged_env = <<>>
    /\ cp = NoCp
    /\ job_id = 0
    /\ res = NoRes
    /\ answers = << >>
    /\ hist = << >>
    /\ result = NoResult
    /\ exc = NoExc
    /\ inline = NoInline
    /\ logger = NoLogger

(* Slurm.__init__, lines 86-94: up to the branch on enable_logging *)
init_enter(t, enable_logging) ==
    /\ pc[t] = "idle"
    /\ pc' = [pc EXCEPT ![t] = IF enable_logging THEN "check" ELSE "null_clear"]
    /\ UNCHANGED <<environ, base_override, base_env, call, merged_env, cp, job_id, res,
                   answers, hist, result, exc, inline, logger>>

(* _get_or_create_default_logger, lines 83-85: the test of the mark *)
logger_check(t) ==
    /\ pc[t] = "check"
    /\ pc' = [pc EXCEPT ![t] = IF logger.configured THEN "idle" ELSE "add_fh"]
    /\ UNCHANGED <<environ, base_override, base_env, call, merged_env, cp, job_id, res,
                   answers, hist, result, exc, inline, logger>>

(* lines 87-94: _default_log_path(), the file handler, logger.addHandler(fh) *)
logger_add_fh(t) ==
    /\ pc[t] = "add_fh"
    /\ logger' = [logger EXCEPT !.handlers = Append(@, "RotatingFileHandler")]
    /\ pc' = [pc EXCEPT ![t] = "add_sh"]
    /\ UNCHANGED <<environ, base_override, base_env, call, merged_env, cp, job_id, res,
                   answers, hist, result, exc, inline>>

(* lines 96-98: the stream handler, logger.addHandler(sh) *)
logger_add_sh(t) ==
    /\ pc[t] = "add_sh"
    /\ logger' = [logger EXCEPT !.handlers = Append(@, "StreamHandler")]
    /\ pc' = [pc EXCEPT ![t] = "mark"]
    /\ UNCHANGED <<environ, base_override, base_env, call, merged_env, cp, job_id, res,
                   answers, hist, result, exc, inline>>

(* lines 100-102: logger._slurm_logger_configured = True, and the return *)
logger_mark(t) ==
    /\ pc[t] = "mark"
    /\ logger' = [logger EXCEPT !.configured = TRUE]
    /\ pc' = [pc EXCEPT ![t] = "idle"]
    /\ UNCHANGED <<environ, base_override, base_env, call, merged_env, cp, job_id, res,
                   answers, hist, result, exc, inline>>

(* Slurm.__init__, lines 96-97: getLogger("quickslurm.null").handlers.clear() *)
null_clear(t) ==
    /\ pc[t] = "null_clear"
    /\ logger' = [logger EXCEPT !.null_handlers = << >>]
    /\ pc' = [pc EXCEPT ![t] = "null_add"]
    /\ UNCHANGED <<environ, base_override, base_env, call, merged_env, cp, job_id, res,
                   answers, hist, result, exc, inline>>

(* Slurm.__init__, lines 98-99: addHandler(logging.NullHandler()) *)
null_add(t) ==
    /\ pc[t] = "null_add"
    /\ logger' = [logger EXCEPT !.null_handlers = Append(@, "NullHandler")]
    /\ pc' = [pc EXCEPT ![t] = "idle"]
    /\ UNCHANGED <<environ, base_override, base_env, call, merged_env, cp, job_id, res,
                   answers, hist, result, exc, inline>>

NextLog ==
    \/ \E t \in Threads, enable_logging \in BOOLEAN : init_enter(t, enable_logging)
    \/ \E t \in Threads : logger_check(t)
    \/ \E t \in Threads : logger_add_fh(t)
    \/ \E t \in Threads : logger_add_sh(t)
    \/ \E t \in Threads : logger_mark(t)
    \/ \E t \in Threads : null_clear(t)
    \/ \E t \in Threads : null_add(t)

SpecLog == InitLog /\ [][NextLog]_vars

----------------------------------------------------------------------------
(* A waiting sbatch call against an accounting interface that settles: from *)
(* the MaxPolls-th query on it reports a terminal state, before that it may *)
(* answer anything or fail.  The final query is answered with a full        *)
(* record.  Every step of the call is taken once it can be: the command     *)
(* exits, a query is answered or times out after 10 seconds, a sleep ends.  *)

SettledReplies ==
    {r \in PollReplies : ~r.timeout /\ sacct_format(r.stdout)[1] \in TerminalStates}

AccountingReplies ==
    IF Count(hist, "poll") + 1 < MaxPolls THEN PollReplies ELSE SettledReplies

FullRecords == {r \in FinalReplies : ~r.timeout /\ Len(sacct_format(r.stdout)) >= 4}

NextWait ==
    \/ Slurm_init(<< >>)
    \/ \E check \in BOOLEAN : sbatch(Str("script.sh"), << >>, SomeOptions, <<>>, check, TRUE)
    \/ \E c \in Completions : run_completed(c)
    \/ \E r \in AccountingReplies : slurm_wait_query(r)
    \/ slurm_wait_sleep
    \/ \E r \in FullRecords : run_assemble(r)

SpecWait == Init /\ [][NextWait]_vars /\ WF_vars(NextWait)

----------------------------------------------------------------------------
(* The argument vectors of sbatch and srun, over every option map of at most *)
(* MaxOpts entries; the command is left in flight.                           *)

NextFlags ==
    \/ Slurm_init(<< >>)
    \/ \E o \in OptionMaps, a \in ScriptArgs :
          sbatch(Str("script.sh"), a, o, <<>>, TRUE, TRUE)
    \/ \E o \in OptionMaps : srun(<<Str("hostname")>>, o, <<>>, TRUE, TRUE)

SpecFlags == Init /\ [][NextFlags]_vars

----------------------------------------------------------------------------
(* _parse_job_id on its own, over every text of at most MaxText tokens *)

TextTokens == {Marker, " ", "1", "2", "x"}

RECURSIVE SeqsUpTo(_, _)
SeqsUpTo(S, n) ==
    IF n = 0 THEN {<< >>}
    ELSE LET shorter == SeqsUpTo(S, n - 1)
         IN  shorter \cup {Append(t, x) : t \in shorter, x \in S}

Texts == SeqsUpTo(TextTokens, MaxText)

InitParse ==
    /\ pc = "parse"
    /\ cp \in {[returncode |-> 0, stdout |-> t, stderr |-> EmptyStr] : t \in Texts}
    /\ environ = <<>>
    /\ base_override = <<>>
    /\ base_env = <<>>
    /\ call = NoCall
    /\ merged_env = <<>>
    /\ job_id = 0
    /\ res = NoRes
    /\ answers = << >>
    /\ hist = << >>
    /\ result = NoResult
    /\ exc = NoExc
    /\ inline = NoInline
    /\ logger = NoLogger

(* _parse_job_id(cp.stdout): the job id returned or the error raised *)
parse_job_id_call ==
    /\ pc = "parse"
    /\ LET r == extract(cp.stdout) IN
       /\ pc' = (IF r.raised THEN "parse_raised" ELSE "parse_returned")
       /\ job_id' = r.id
       /\ result' = r.error
    /\ UNCHANGED <<environ, base_override, base_env, call, merged_env, cp, res, answers,
                   hist, exc, inline, logger>>

NextParse == parse_job_id_call

SpecParse == InitParse /\ [][NextParse]_vars

----------------------------------------------------------------------------
(* What the claims speak about *)

Last(h) == h[Len(h)]
Has(h, e) == \E i \in 1..Len(h) : h[i] = e
Exited == Has(hist, "exit")
NoAccounting == ~Has(hist, "poll") /\ ~Has(hist, "final")

(* a polling query that failed: timed out, exited non-zero, or printed no line *)
PollFailed(r) == r.timeout \/ r.returncode # 0 \/ strip(r.stdout) = EmptyStr

(* the poller has just been answered *)
JustPolled == hist # << >> /\ Last(hist) \in {"poll", "waited"} /\ Has(hist, "poll")

(* C1: a polling query that fails (non-zero exit, timeout, no parseable line) *)
(* leaves the poller waiting (it goes to sleep and retries), and no error of  *)
(* a polling query reaches the caller of sbatch.                              *)
C1_PollFailureIsRetried ==
    JustPolled /\ PollFailed(res) => pc = "sleeping"

(* C2: when the poller returns, the last answer is the first terminal one, say *)
(* the n-th: n queries were issued and n-1 sleeps, one between each two        *)
(* queries; so PENDING, RUNNING, COMPLETED takes three queries and two sleeps. *)
PollSteps == SelectSeq(hist, LAMBDA e : e \in {"poll", "sleep"})
C2_QueriesAndSleeps ==
    /\ pc \in {"polling", "sleeping"} =>
          /\ \A i \in 1..Len(answers) : answers[i] \notin TerminalStates
          /\ Count(hist, "poll") = Len(answers)
          /\ Count(hist, "sleep") = (IF pc = "polling" THEN Len(answers) ELSE Len(answers) - 1)
    /\ pc = "assembling" /\ job_id # 0 =>
          LET n == Len(answers) IN
          /\ n >= 1
          /\ answers[n] \in TerminalStates
          /\ \A i \in 1..(n - 1) : answers[i] \notin TerminalStates
          /\ Count(hist, "poll") = n
          /\ Count(hist, "sleep") = n - 1
          /\ \A i \in 1..Len(PollSteps) :
                PollSteps[i] = (IF i % 2 = 1 THEN "poll" ELSE "sleep")
    /\ answers = <<Str("PENDING"), Str("RUNNING"), Str("COMPLETED")>> =>
          /\ pc \notin {"polling", "sleeping"}
          /\ Count(hist, "poll") = 3
          /\ Count(hist, "sleep") = 2

C2_Witness ==
    /\ pc = "assembling"
    /\ answers = <<Str("PENDING"), Str("RUNNING"), Str("COMPLETED")>>
    /\ PollSteps = <<"poll", "sleep", "poll", "sleep", "poll">>

(* the final query could not be read: it failed, or its first line has fewer *)
(* than the four requested fields                                            *)
FinalUnreadable(r) ==
    r.timeout \/ r.returncode # 0 \/ Len(sacct_format(r.stdout)) < 4

(* C3: with wait enabled, a final accounting query that fails or cannot be  *)
(* parsed makes sbatch return the job id with state UNKNOWN; it never raises. *)
C3_UnreadableFinalQueryIsUnknown ==
    Has(hist, "final") /\ FinalUnreadable(res) =>
        /\ pc = "returned"
        /\ result.kind = "SubmitResult"
        /\ result.job_id = job_id
        /\ result.state = Str("UNKNOWN")

(* the value the claim gives key k: per-call override, else base override, *)
(* else the inherited value                                                *)
Layered(k) ==
    IF k \in DOMAIN call.extra_env THEN call.extra_env[k]
    ELSE IF k \in DOMAIN base_override THEN base_override[k]
    ELSE environ[k]

(* C4: the command receives, for every key, the per-call override, else the *)
(* base override, else the inherited value.                                 *)
C4_EnvPrecedence ==
    Has(hist, "run") =>
        /\ DOMAIN merged_env = DOMAIN call.extra_env \cup DOMAIN base_override \cup DOMAIN environ
        /\ \A k \in DOMAIN merged_env : merged_env[k] = Layered(k)

(* C5: within a call the steps come in the order invocation, extraction,    *)
(* polling, assembly: extraction only after the submission process ended,   *)
(* every polling query after a job id was extracted, the final query only   *)
(* after the poller returned and with no polling query after it.            *)
Before(e, i) == \E j \in 1..(i - 1) : hist[j] = e
C5_StepOrder ==
    /\ \A i \in 1..Len(hist) :
          /\ hist[i] = "exit" => Before("run", i)
          /\ hist[i] = "parse_job_id" => Before("exit", i)
          /\ hist[i] \in {"poll", "sleep", "waited"} => Before("parse_job_id", i)
          /\ hist[i] = "final" =>
                /\ Before("waited", i)
                /\ \A j \in (i + 1)..Len(hist) : hist[j] \notin {"poll", "parse_job_id", "run"}
    /\ Has(hist, "poll") \/ Has(hist, "final") =>
          /\ cp.returncode = 0
          /\ HasJobId(cp.stdout)
          /\ job_id = parse_job_id(cp.stdout)

C5_Witness ==
    /\ pc = "returned"
    /\ hist = <<"run", "exit", "parse_job_id", "poll", "sleep", "poll", "waited", "final">>

(* C6: sbatch with check=True whose submission exits non-zero raises         *)
(* SlurmCommandError carrying that exit code, the captured stdout and stderr *)
(* and the argument vector; no job id is extracted, no accounting query made. *)
C6_StrictFailureRaises ==
    call.op = "sbatch" /\ call.check /\ Exited /\ cp.returncode # 0 =>
        /\ pc = "raised"
        /\ result.kind = "SlurmCommandError"
        /\ result.result = CommandResult(cp.returncode, cp.stdout, cp.stderr, call.args)
        /\ ~Has(hist, "parse_job_id")
        /\ NoAccounting

C6_Witness ==
    /\ call.op = "sbatch" /\ call.check /\ Exited
    /\ cp.returncode = 2 /\ cp.stderr = Str("boom")
    /\ pc = "raised" /\ result.kind = "SlurmCommandError"
    /\ result.result.returncode = 2 /\ result.result.stderr = Str("boom")

(* C7: srun and scancel with check=True raise SlurmCommandError whenever the *)
(* command exits non-zero; they return a result for it only with check=False. *)
C7_SrunScancelStrictRaises ==
    call.op \in {"srun", "scancel"} /\ Exited /\ cp.returncode # 0 =>
        IF call.check
        THEN pc = "raised" /\ result.kind = "SlurmCommandError"
        ELSE pc = "returned" /\ result.kind = "SubmitResult"

(* C8: sbatch with check=False whose submission exits non-zero returns job id *)
(* 0, state UNKNOWN, the exit code and the captured stdout and stderr,        *)
(* whatever wait is; no job id is parsed from the output, no accounting query. *)
C8_LenientFailureReturnsSentinel ==
    call.op = "sbatch" /\ ~call.check /\ Exited /\ cp.returncode # 0 =>
        /\ pc = "returned"
        /\ result = SubmitResult(0, Str("UNKNOWN"), IntVal(cp.returncode), cp.stdout,
                                 cp.stderr, call.args)
        /\ ~Has(hist, "parse_job_id")
        /\ NoAccounting

C8_Witness ==
    /\ call.op = "sbatch" /\ ~call.check /\ call.wait /\ Exited
    /\ cp.returncode = 1 /\ HasJobId(cp.stdout)
    /\ pc = "returned" /\ result.job_id = 0

(* C9: sbatch with wait disabled whose submission exits 0 with a parseable   *)
(* job id returns that job id, state UNKNOWN and the submission's own exit   *)
(* code, and issues no accounting query.                                     *)
C9_NoWaitResult ==
    call.op = "sbatch" /\ ~call.wait /\ Exited /\ cp.returncode = 0 /\ HasJobId(cp.stdout) =>
        /\ pc = "returned"
        /\ result.kind = "SubmitResult"
        /\ result.job_id = parse_job_id(cp.stdout)
        /\ cp.stdout = <<Marker, " ", "4", "2", "\n">> => result.job_id = 42
        /\ result.state = Str("UNKNOWN")
        /\ result.returncode = IntVal(cp.returncode)
        /\ NoAccounting

C9_Witness ==
    /\ call.op = "sbatch" /\ ~call.wait /\ pc = "returned"
    /\ cp.returncode = 0 /\ result.job_id = 42 /\ result.state = Str("UNKNOWN")

(* C10: sbatch with wait=True that returns for a non-zero job id never       *)
(* reports a non-terminal state (PENDING, RUNNING, empty): the state is one  *)
(* of the six terminal states, or UNKNOWN.                                   *)
C10_WaitedStateIsTerminal ==
    call.op = "sbatch" /\ call.wait /\ pc = "returned" /\ Exited /\ cp.returncode = 0
            /\ job_id # 0 =>
        /\ result.state \notin {Str("PENDING"), Str("RUNNING"), EmptyStr}
        /\ result.state \in TerminalStates \cup {Str("UNKNOWN")}


(* C11: for the sentinel job id 0 the poller returns at once: it issues no *)
(* accounting query and does not sleep.                                   *)
C11_SentinelSkipsPolling ==
    call.op = "sbatch" /\ call.wait /\ Exited /\ cp.returncode = 0 /\ HasJobId(cp.stdout)
            /\ job_id = 0 =>
        /\ pc \notin {"polling", "sleeping"}
        /\ ~Has(hist, "poll")
        /\ ~Has(hist, "sleep")
        /\ Has(hist, "waited")

C11_Witness ==
    /\ call.op = "sbatch" /\ call.wait /\ pc = "assembling"
    /\ cp.stdout = <<Marker, " ", "0", "\n">> /\ job_id = 0
    /\ hist = <<"run", "exit", "parse_job_id", "waited">>

(* C12: a submission that exits 0 without 'Submitted batch job <digits>' in *)
(* its stdout makes sbatch raise SlurmParseError at once, whatever check    *)
(* and wait are: no job id, no SubmitResult, no accounting query.           *)
C12_NoMarkerRaisesParseError ==
    call.op = "sbatch" /\ Exited /\ cp.returncode = 0 /\ ~HasJobId(cp.stdout) =>
        /\ pc = "raised"
        /\ result.kind = "SlurmParseError"
        /\ result.text = cp.stdout
        /\ job_id = 0
        /\ Last(hist) = "parse_job_id"
        /\ NoAccounting

C12_Witness ==
    /\ call.op = "sbatch" /\ ~call.check /\ call.wait /\ pc = "raised"
    /\ cp.returncode = 0 /\ cp.stdout = <<"weird", " ", "output">>
    /\ result.kind = "SlurmParseError"

(* C16: an executable that cannot be found makes the call fail at once with *)
(* SlurmError, not SlurmCommandError, after exactly one invocation attempt; *)
(* no extraction and no accounting query follow.                            *)
C16_ToolNotFound ==
    exc.kind = "FileNotFoundError" =>
        /\ pc = "raised"
        /\ result.kind = "SlurmError"
        /\ Count(hist, "run") = 1
        /\ ~Exited
        /\ ~Has(hist, "parse_job_id")
        /\ NoAccounting

C16_Witness ==
    exc.kind = "FileNotFoundError" /\ pc = "raised" /\ call.op = "sbatch" /\ call.wait

(* C17: a command that exceeds its timeout makes the call fail with the     *)
(* timeout error whatever check is; the error carries the stdout and stderr *)
(* captured before the timeout (a note in place of an empty stderr) and the *)
(* argument vector; the command is not run again, nothing is extracted or   *)
(* queried.                                                                 *)
C17_TimeoutCarriesPartialOutput ==
    exc.kind = "TimeoutExpired" =>
        /\ pc = "raised"
        /\ result.kind = "SlurmCommandError"
        /\ result.result.returncode = -1
        /\ result.result.stdout = exc.stdout
        /\ result.result.stderr = (IF exc.stderr # EmptyStr THEN exc.stderr
                                   ELSE Str("TimeoutExpired"))
        /\ result.result.args = call.args
        /\ Count(hist, "run") = 1
        /\ ~Exited
        /\ ~Has(hist, "parse_job_id")
        /\ NoAccounting

C17_Witness ==
    /\ exc.kind = "TimeoutExpired" /\ exc.stdout = Str("out") /\ exc.stderr = Str("err")
    /\ ~call.check /\ pc = "raised"
    /\ result.result.stdout = Str("out") /\ result.result.stderr = Str("err")

(* two errors of the same kind carrying the same exit code *)
SameKindAndCode(e1, e2) ==
    /\ e1.kind = e2.kind
    /\ e1.kind = "SlurmCommandError" => e1.result.returncode = e2.result.returncode

(* C18: the failure conditions give pairwise distinct errors: the error of a *)
(* timeout is never of the same kind with the same exit code as the error of *)
(* a non-zero exit under strict checking, and neither is the error of a      *)
(* missing executable.                                                       *)
C18_DistinctErrors ==
    pc = "raised" /\ exc.kind = "TimeoutExpired" =>
        /\ \A c \in Completions :
              c.returncode # 0 => ~SameKindAndCode(result, command_failed(c, call.args))
        /\ ~SameKindAndCode(result, tool_not_found(call.args))
        /\ \A c \in Completions :
              c.returncode # 0 =>
                  ~SameKindAndCode(command_failed(c, call.args), tool_not_found(call.args))


(* the pattern marker, whitespace, digits lies at i: the digits are s[j..k], *)
(* the whole run                                                             *)
PatternAt(s, i, j, k) ==
    /\ s[i] = Marker
    /\ j > i + 1
    /\ \A m \in (i + 1)..(j - 1) : IsSpace(s[m])
    /\ j <= k
    /\ \A m \in j..k : IsDigit(s[m])
    /\ k = Len(s) \/ ~IsDigit(s[k + 1])
PatternFrom(s, i) == \E j, k \in 1..Len(s) : PatternAt(s, i, j, k)

RECURSIVE Pow10(_)
Pow10(n) == IF n = 0 THEN 1 ELSE 10 * Pow10(n - 1)
RECURSIVE Decimal(_, _, _)
Decimal(s, j, k) ==
    IF j > k THEN 0 ELSE DigitVal(s[j]) * Pow10(k - j) + Decimal(s, j + 1, k)

Kept(options) == SelectSeq(options, LAMBDA e : e[2] # BoolVal(FALSE))

(* the flag tokens of the command in flight: what lies between the tool and *)
(* the script or command                                                    *)
FlagTokens == SubSeq(call.args, 2, Len(call.args) - Len(call.tail))

(* the option name without its surrounding whitespace, underscores as dashes *)
NormKey(k) ==
    LET solid == {i \in 1..Len(k) : k[i] # " "}
        lo == CHOOSE i \in solid : \A j \in solid : i <= j
        hi == CHOOSE i \in solid : \A j \in solid : j <= i
    IN  IF solid = {} THEN << >>
        ELSE [i \in 1..(hi - lo + 1) |->
                 IF k[lo + i - 1] = "_" THEN "-" ELSE k[lo + i - 1]]

(* the written form of the option values in use *)
ValueText(v) ==
    CASE v = IntVal(42) -> <<"4", "2">>
      [] v = StrVal(<<"4", "2">>) -> <<"4", "2">>
      [] v = StrVal(Str("x")) -> <<"x">>

(* the one token that a non-false entry stands for *)
TokenOf(e) ==
    IF e[2] = BoolVal(TRUE) THEN <<"-", "-">> \o NormKey(e[1])
    ELSE <<"-", "-">> \o NormKey(e[1]) \o <<"=">> \o ValueText(e[2])

(* C14: every option entry is encoded by its value alone: false gives no    *)
(* token, true gives exactly --key, any other value gives exactly           *)
(* --key=value, the key stripped of surrounding whitespace and with every   *)
(* underscore replaced by a dash.                                           *)
C14_EntryEncoding ==
    (pc = "running" /\ call.op \in {"sbatch", "srun"}) =>
        FlagTokens = [n \in 1..Len(Kept(call.options)) |-> TokenOf(Kept(call.options)[n])]

C14_Witness ==
    /\ pc = "running"
    /\ call.op = "sbatch"
    /\ call.options = << <<(<<" ", "a", "_", "b", " ">>), BoolVal(TRUE)>>,
                          <<(<<"a">>), BoolVal(FALSE)>>,
                          <<(<<"_", "e">>), IntVal(42)>> >>
    /\ FlagTokens = << <<"-", "-", "a", "-", "b">>,
                        <<"-", "-", "-", "e", "=", "4", "2">> >>

(* C15: the encoder keeps the input order, one token per entry that is not  *)
(* false, and the sbatch argument vector is the tool path, these tokens,    *)
(* the script path and last the script arguments.                           *)
C15_OrderAndPlacement ==
    (pc = "running" /\ call.op = "sbatch") =>
        LET kept == Kept(call.options)
            flags == build_flag_kv(call.options)
        IN  /\ Len(flags) = Len(kept)
            /\ \A n \in 1..Len(kept) :
                  Take(flags[n], 2 + Len(NormKey(kept[n][1])))
                      = <<"-", "-">> \o NormKey(kept[n][1])
            /\ call.args = <<Str("sbatch")>> \o flags \o call.tail
            /\ call.tail[1] = Str("script.sh")

C15_Witness ==
    /\ pc = "running"
    /\ call.op = "sbatch"
    /\ call.options = << <<(<<"a", "-", "b">>), StrVal(<<"4", "2">>)>>,
                          <<(<<"_", "e">>), BoolVal(FALSE)>>,
                          <<(<<"a">>), BoolVal(TRUE)>> >>
    /\ call.args = <<Str("sbatch"), <<"-", "-", "a", "-", "b", "=", "4", "2">>,
                      <<"-", "-", "a">>, Str("script.sh"), Str("arg")>>

(* C19: submit_inline removes its temporary script whatever the outcome of  *)
(* sbatch: once it is left the file is gone, the removed path is the path   *)
(* that sbatch was given, and nothing is removed while sbatch is under way. *)
C19_InlineCleanup ==
    /\ inline.stage = "try" =>
          /\ inline.tf_path \in inline.files
          /\ inline.unlinked = << >>
    /\ inline.stage = "done" =>
          /\ pc \in {"returned", "raised"}
          /\ inline.tf_path \notin inline.files
          /\ inline.unlinked = <<inline.tf_path>>
          /\ call.op = "sbatch"
          /\ call.tail = <<inline.tf_path>>
          /\ call.args[Len(call.args)] = inline.tf_path
          /\ inline.files = NoInline.files

C19_Witness ==
    /\ inline.stage = "done"
    /\ pc = "raised"
    /\ result.kind = "SlurmParseError"
    /\ inline.unlinked = <<Str("tmp2.sh")>>

(* the JobState enumeration *)
JobStates ==
    {Str("PENDING"), Str("RUNNING"), Str("COMPLETED"), Str("FAILED"), Str("CANCELLED"),
     Str("TIMEOUT"), Str("NODE_FAIL"), Str("OUT_OF_MEMORY"), Str("UNKNOWN")}

(* C20: the state of every SubmitResult that sbatch, srun or scancel returns *)
(* is a member of the JobState enumeration.                                  *)
C20_StateInEnumeration ==
    pc = "returned" /\ result.kind = "SubmitResult" => result.state \in JobStates

(* C23: the stdout and stderr of the SubmitResult that sbatch returns are   *)
(* what the sbatch command itself printed, and args is the argument vector  *)
(* that was run, with wait as well as without.                              *)
C23_ResultCarriesSbatchOutput ==
    (pc = "returned" /\ call.op = "sbatch" /\ result.kind = "SubmitResult") =>
        /\ result.stdout = cp.stdout
        /\ result.stderr = cp.stderr
        /\ result.args = call.args

UpTo(s, sep) ==
    LET at == {i \in 1..Len(s) : s[i] = sep}
    IN  IF at = {} THEN s
        ELSE SubSeq(s, 1, (CHOOSE i \in at : \A j \in at : i <= j) - 1)

(* the first field of the first line *)
FirstField(s) == UpTo(UpTo(s, "\n"), "|")

TerminalNames ==
    {<<"COMPLETED">>, <<"FAILED">>, <<"CANCELLED">>, <<"TIMEOUT">>, <<"NODE_FAIL">>,
     <<"OUT_OF_MEMORY">>}

(* C26: for a non-zero job id the poller returns after a query exactly when  *)
(* the first field of the first line of its output is one of the six         *)
(* terminal names; later lines are ignored and any other value keeps it      *)
(* waiting.                                                                  *)
C26_ReturnsExactlyOnTerminalField ==
    (JustPolled /\ ~res.timeout) =>
        /\ job_id # 0
        /\ (FirstField(res.stdout) \in TerminalNames) <=>
               (pc = "assembling" /\ Last(hist) = "waited")
        /\ (FirstField(res.stdout) \notin TerminalNames) <=>
               (pc = "sleeping" /\ Last(hist) = "poll")

C26_Witness ==
    /\ pc = "assembling"
    /\ Last(hist) = "waited"
    /\ res.stdout = <<"FAILED", "\n", "RUNNING", "\n">>
    /\ answers = << <<"CANCELLED", " ", "by", " ", "1">>, Str("FAILED") >>

(* C28: the exit code of every outcome record (a returned SubmitResult, or  *)
(* the CommandResult of a SlurmCommandError) is an integer.                 *)
C28_ExitCodeIsInteger ==
    /\ (pc = "returned" /\ result.kind = "SubmitResult") =>
          result.returncode.type = "int"
    /\ (pc = "raised" /\ result.kind = "SlurmCommandError") =>
          result.result.returncode \in Int

(* C22: once accounting reports a terminal state for good, a waiting sbatch *)
(* call of a non-zero job id stops polling and returns to its caller,       *)
(* whatever non-terminal answers and failed queries came before.            *)
C22_WaitEventuallyReturns ==
    (pc = "polling" /\ call.wait /\ job_id # 0) ~> (pc = "returned")

(* re-parsing a token: --key is a true flag, --key=value a key and the text *)
(* of its value                                                            *)
ParseToken(t) ==
    LET body == SubSeq(t, 3, Len(t))
        key == UpTo(body, "=")
    IN  IF key = body
        THEN [key |-> body, flag |-> TRUE, text |-> << >>]
        ELSE [key |-> key, flag |-> FALSE, text |-> SubSeq(body, Len(key) + 2, Len(body))]

(* what an entry that is not false asks for *)
Intent(e) ==
    IF e[2] = BoolVal(TRUE)
    THEN [key |-> NormKey(e[1]), flag |-> TRUE, text |-> << >>]
    ELSE [key |-> NormKey(e[1]), flag |-> FALSE, text |-> ValueText(e[2])]

Intents(options) == [n \in 1..Len(Kept(options)) |-> Intent(Kept(options)[n])]

(* the option maps that differ from options in one entry that is not false *)
Variants(options) ==
    UNION {{[options EXCEPT ![i] = <<k, v>>] :
                k \in OptionKeys \ {options[j][1] : j \in 1..Len(options) \ {i}},
                v \in OptionValues} :
           i \in {j \in 1..Len(options) : options[j][2] # BoolVal(FALSE)}} \ {options}

RoundTrip ==
    [n \in 1..Len(FlagTokens) |-> ParseToken(FlagTokens[n])] = Intents(call.options)

Alone(extra) ==
    EnvUpdate(EnvUpdate(EnvUpdate(environ, base_override), environ), extra)

(* C21: concurrent calls on one instance share no mutable state: in every   *)
(* interleaving the environment handed to each command depends only on the *)
(* base environment of the instance and on that call's own overrides, and  *)
(* the base environment stays what the constructor made it.                *)
C21_CallsShareNoState ==
    /\ base_env = EnvUpdate(environ, base_override)
    /\ \A t \in Threads :
          pc[t] = "ran" =>
              /\ merged_env[t].passed = Alone(call[t].extra_env)
              /\ \A u \in Threads :
                    (pc[u] = "ran" /\ call[u].extra_env = call[t].extra_env) =>
                        merged_env[u].passed = merged_env[t].passed

C21_Witness ==
    /\ environ = <<>>
    /\ pc[1] = "ran"
    /\ pc[2] = "ran"
    /\ call[1].extra_env = [k \in EnvKeys |-> "call"]
    /\ call[2].extra_env = <<>>
    /\ merged_env[1].passed = [k \in EnvKeys |-> "call"]
    /\ merged_env[2].passed = base_env

(* C27: whatever the number, order and interleaving of the constructions    *)
(* with the built-in logger, the "quickslurm" logger is configured once: it *)
(* never carries more than one rotating file handler or more than one       *)
(* stream handler, and once a construction is over it carries exactly one   *)
(* of each.                                                                 *)
C27_LoggerConfiguredOnce ==
    /\ Count(logger.handlers, "RotatingFileHandler") <= 1
    /\ Count(logger.handlers, "StreamHandler") <= 1
    /\ logger.configured => logger.handlers = <<"RotatingFileHandler", "StreamHandler">>

====
